---- MODULE Spec2Model ----
(***************************************************************************)
(* Steam / chimney particle prototype (src/mid.cpp): the frame loop of     *)
(* main(), i.e. clock read and clamp, emission through spawnParticle, the  *)
(* reverse integrate-and-cull loop, packing, upload and draw.              *)
(*                                                                         *)
(* Numbers are fixed point.  Time is counted in ticks of 0.01 s, lengths   *)
(* and sizes in 1e-4, velocities in 1e-4 per second, angles in 0.01 rad,   *)
(* and the spawn accumulator in 1/100 of a particle (ONE_PARTICLE is 1.0). *)
(* Every float operation is the exact operation followed by rounding to    *)
(* the grid (RoundDiv).                                                    *)
(***************************************************************************)
EXTENDS Integers, Sequences, FiniteSets, TLC

\* ---------------------------------------------------------------- bounds
\* Pool capacity.  The source sets 1000 (mid.cpp:29); the model runs the
\* same code with a small capacity so that a full pool is reached.
MAX_PARTICLES == 4
\* Number of loop iterations explored.
MaxFrames == 30
\* Number of frames whose clock delta is not the nominal one.
MaxHiccups == 1
\* Number of frames of the two-run comparison.
MaxPairFrames == 5
\* Largest pool handed to a single integrate-and-cull pass.
MaxPassLen == 4

\* ------------------------------------------------------- program constants
DT_MAX == 5            \* 0.05 s, mid.cpp:231
spawnRate == 150       \* particles per second, mid.cpp:219
SEED == 12345          \* std::mt19937 rng(12345), mid.cpp:31

\* --------------------------------------------------------------- units
TICKS_PER_SEC == 10 * 10
ONE_PARTICLE == TICKS_PER_SEC      \* accumulator value 1.0
STRIDE == 4                        \* floats per record, mid.cpp:195

\* a / b rounded to the nearest integer (b > 0)
RoundDiv(a, b) == (2 * a + b) \div (2 * b)

\* std::sin of an angle given in 0.01 rad, result in 1/1000
\* (Bhaskara's rational approximation, exact at 0, pi/6, pi/2, pi).
Sin(a) ==
    LET pi == 314
        r  == a % (2 * pi)
        h  == IF r < pi THEN r ELSE r - pi
        q  == h * (pi - h)
        v  == (16 * q * 1000) \div (5 * pi * pi - 4 * q)
    IN  IF r < pi THEN v ELSE -v

\* std::cos
Cos(a) == Sin(a + 157)

\* ------------------------------------------------------------ generator
\* std::mt19937 stands as a full-period linear congruential generator; what
\* the program relies on is a deterministic stream started from SEED.
RngMod == 2 * 128
RngStep(r) == (r * 141 + 3) % RngMod

\* urf(rng): the value drawn, in quarters, from [-1, 1)
UrfOf(r) == (r \div 32) - 4

\* k/4 * mag
Jitter(k, mag) == RoundDiv(k * mag, 4)

\* ------------------------------------------------------------- emitter
emitterX == 0
emitterY == -6000
emitterZ == 0

VARIABLES
    pc,               \* position in the loop body
    t,                \* double t = nowSeconds()
    lastTime,         \* double lastTime
    dt,               \* double dt (after the clamp)
    spawnAccumulator, \* double spawnAccumulator
    particles,        \* std::vector<Particle> particles
    rng,              \* std::mt19937 rng
    buffer,           \* std::vector<float> buffer
    vboSize,          \* floats allocated by glBufferData
    uploaded,         \* floats written by glBufferSubData in this frame
    uploadIssued,     \* glBufferSubData was called in this frame
    drawIssued,       \* glDrawArrays was called in this frame
    drawCount,        \* its count argument
    frames,           \* completed loop iterations
    hiccups,          \* frames with an irregular clock delta so far
    rawDt,            \* history: t - lastTime before the clamp
    accIn,            \* history: accumulator carried into the frame
    spawnCalls,       \* history: spawnParticle calls of the frame
    rejects,          \* history: calls of the frame that found the pool full
    nextId,           \* history: serial number of the next particle
    runDt, runFrames, runCalls,  \* history: run of equal-dt frames
    runA, runB,       \* two independent runs (two-run comparison)
    passIn,           \* single pass: the pool at the start of the pass
    passPool,         \* single pass: particles during the pass
    passI,            \* single pass: the loop index i (1-based, 0 = ended)
    passVisits,       \* history: updates applied to each particle of passIn
    passT, passDt     \* single pass: t and dt of the frame

mainVars == <<pc, t, lastTime, dt, spawnAccumulator, particles, rng, buffer,
              vboSize, uploaded, uploadIssued, drawIssued, drawCount, frames,
              hiccups, rawDt, accIn, spawnCalls, rejects, nextId,
              runDt, runFrames, runCalls>>
pairVars == <<runA, runB>>
passVars == <<passIn, passPool, passI, passVisits, passT, passDt>>
vars == <<mainVars, pairVars, passVars>>

\* ------------------------------------------------------------ particles
\* struct Particle, plus the history field id (serial number of the spawn)
Particle(x, y, z, vx, vy, vz, life, size, id) ==
    [x |-> x, y |-> y, z |-> z, vx |-> vx, vy |-> vy, vz |-> vz,
     life |-> life, size |-> size, id |-> id]

\* The eight draws of one spawnParticle call, in program order.
Draws(r) ==
    LET r1 == RngStep(r)   r2 == RngStep(r1)  r3 == RngStep(r2)
        r4 == RngStep(r3)  r5 == RngStep(r4)  r6 == RngStep(r5)
        r7 == RngStep(r6)  r8 == RngStep(r7)
    IN  [u |-> <<UrfOf(r1), UrfOf(r2), UrfOf(r3), UrfOf(r4),
                  UrfOf(r5), UrfOf(r6), UrfOf(r7), UrfOf(r8)>>,
         r |-> r8]

\* The record built by spawnParticle from the draws u.
NewParticle(x, y, z, u, id) ==
    Particle(x + Jitter(u[1], 200),
             y + Jitter(u[2], 100),
             z + Jitter(u[3], 100),
             Jitter(u[4], 200),
             4000 + Jitter(u[5], 1500),
             Jitter(u[6], 200),
             180 + Jitter(u[7], 60),
             300 + RoundDiv(300 * (u[8] + 4), 8),
             id)

\* spawnParticle without its capacity test (mutant of spawnParticle)
spawnParticleUnguarded(ps, r, id, x, y, z) ==
    LET d == Draws(r)
    IN  [ps |-> Append(ps, NewParticle(x, y, z, d.u, id)),
         r  |-> d.r,
         id |-> id + 1]

\* a full pool overwrites its last slot (mutant of spawnParticle)
spawnParticleOverwrite(ps, r, id, x, y, z) ==
    LET d == Draws(r)
        p == NewParticle(x, y, z, d.u, id)
    IN  IF Len(ps) >= MAX_PARTICLES
        THEN [ps |-> [ps EXCEPT ![Len(ps)] = p], r |-> d.r, id |-> id + 1]
        ELSE [ps |-> Append(ps, p), r |-> d.r, id |-> id + 1]

\* spawnParticle(x, y, z): the pool, the generator and the serial number
\* after the call.
spawnParticle(ps, r, id, x, y, z) ==
    IF Len(ps) >= MAX_PARTICLES
    THEN [ps |-> ps, r |-> r, id |-> id]
    ELSE LET d == Draws(r)
         IN  [ps |-> Append(ps, NewParticle(x, y, z, d.u, id)),
              r  |-> d.r,
              id |-> id + 1]

\* the clamp left out (mutant of ClampDt)
ClampDtNone(d) == d

\* if (dt > 0.05) dt = 0.05;
ClampDt(d) == IF d > DT_MAX THEN DT_MAX ELSE d

\* the increment truncated to whole particles (mutant of AccAdd)
AccAddWhole(a, d) == a + ((d * spawnRate) \div ONE_PARTICLE) * ONE_PARTICLE

\* spawnAccumulator += dt * spawnRate;
AccAdd(a, d) == a + d * spawnRate

\* spawnAccumulator -= 1.0;
AccTake(a) == a - ONE_PARTICLE

\* The body of the update loop for one particle, up to p.life -= dt.
UpdateParticle(p, tt, d) ==
    LET windX == RoundDiv(50 * Sin(RoundDiv(tt * 13 + p.x, 10)), 100)
        windZ == RoundDiv(30 * Cos(RoundDiv(tt * 17, 10) + RoundDiv(p.z * 8, 100)), 100)
        vx == RoundDiv((p.vx + RoundDiv(windX * d, TICKS_PER_SEC)) * 995, 1000)
        vy == RoundDiv(p.vy * 999, 1000)
        vz == RoundDiv((p.vz + RoundDiv(windZ * d, TICKS_PER_SEC)) * 995, 1000)
    IN  [p EXCEPT !.vx = vx, !.vy = vy, !.vz = vz,
                  !.x = p.x + RoundDiv(vx * d, TICKS_PER_SEC),
                  !.y = p.y + RoundDiv(vy * d, TICKS_PER_SEC),
                  !.z = p.z + RoundDiv(vz * d, TICKS_PER_SEC),
                  !.size = RoundDiv(p.size * (4 * TICKS_PER_SEC + d), 4 * TICKS_PER_SEC),
                  !.life = p.life - d]

\* the expiry test with < for <= (mutant of Dead)
DeadStrict(p) == p.life < 0 \/ p.y > 12000

\* if (p.life <= 0.0f || p.y > 1.2f)
Dead(p) == p.life <= 0 \/ p.y > 12000

\* pop_back without the copy of the last element (mutant of SwapPop)
PopOnly(ps, i) == SubSeq(ps, 1, Len(ps) - 1)

\* particles[i] = particles.back(); particles.pop_back();
SwapPop(ps, i) == SubSeq([ps EXCEPT ![i] = ps[Len(ps)]], 1, Len(ps) - 1)

\* for (int i = size-1; i >= 0; --i) { update; if dead swap-pop }
\* (indices are 1-based here: i runs from Len(ps) down to 1)
RECURSIVE UpdateLoop(_, _, _, _)
UpdateLoop(ps, i, tt, d) ==
    IF i < 1 THEN ps
    ELSE LET p   == UpdateParticle(ps[i], tt, d)
             ps1 == [ps EXCEPT ![i] = p]
             ps2 == IF Dead(p) THEN SwapPop(ps1, i) ELSE ps1
         IN  UpdateLoop(ps2, i - 1, tt, d)

UpdateAll(ps, tt, d) == UpdateLoop(ps, Len(ps), tt, d)

\* for (auto &p : particles) push x, y, z, size
RECURSIVE PackFrom(_, _)
PackFrom(ps, i) ==
    IF i > Len(ps) THEN <<>>
    ELSE <<ps[i].x, ps[i].y, ps[i].z, ps[i].size>> \o PackFrom(ps, i + 1)

\* the size attribute left out of each record (mutant of Pack)
RECURSIVE PackNoSizeFrom(_, _)
PackNoSizeFrom(ps, i) ==
    IF i > Len(ps) THEN <<>>
    ELSE <<ps[i].x, ps[i].y, ps[i].z>> \o PackNoSizeFrom(ps, i + 1)

PackNoSize(ps) == PackNoSizeFrom(ps, 1)

Pack(ps) == PackFrom(ps, 1)

\* ------------------------------------------------------------ the clock
\* nowSeconds() reads std::chrono::high_resolution_clock, which the standard
\* does not require to be steady: the value read may lie before lastTime.
StartTimes == {1000, 1040}
NominalDelta == DT_MAX
HiccupDeltas == {0 - 7, 0, 2, 1000}

ClockDeltas == IF hiccups < MaxHiccups
               THEN {NominalDelta} \cup HiccupDeltas
               ELSE {NominalDelta}

\* ------------------------------------------------------ the two-run pair
Run(ps, acc, r, id, last) ==
    [particles |-> ps, spawnAccumulator |-> acc, rng |-> r, nextId |-> id,
     lastTime |-> last, frames |-> 0]

NoRun == Run(<<>>, 0, SEED % RngMod, 1, 0)

\* ----------------------------------------------------------------- Init
MainInit ==
    /\ pc = "clock"
    /\ lastTime \in StartTimes          \* double lastTime = nowSeconds();
    /\ t = lastTime
    /\ dt = 0
    /\ spawnAccumulator = 0
    /\ particles = <<>>
    /\ rng = SEED % RngMod
    /\ buffer = <<>>
    /\ vboSize = MAX_PARTICLES * STRIDE \* glBufferData at setup
    /\ uploaded = <<>>
    /\ uploadIssued = FALSE
    /\ drawIssued = FALSE
    /\ drawCount = 0
    /\ frames = 0
    /\ hiccups = 0
    /\ rawDt = 0
    /\ accIn = 0
    /\ spawnCalls = 0
    /\ rejects = 0
    /\ nextId = 1
    /\ runDt = 0
    /\ runFrames = 0
    /\ runCalls = 0

\* No single pass is under way.
PassIdle ==
    /\ passIn = <<>>
    /\ passPool = <<>>
    /\ passI = 0
    /\ passVisits = <<>>
    /\ passT = 0
    /\ passDt = 0

Init ==
    /\ MainInit
    /\ runA = NoRun
    /\ runB = NoRun
    /\ PassIdle

\* -------------------------------------------------------------- actions
historyVars == <<rawDt, accIn, spawnCalls, rejects, nextId>>
gpuVars == <<buffer, vboSize, uploaded, uploadIssued, drawIssued, drawCount>>
runVars == <<runDt, runFrames, runCalls>>

\* lines 228-231: read the clock, compute and clamp dt
ReadClock ==
    /\ pc = "clock"
    /\ frames < MaxFrames
    /\ \E d \in ClockDeltas :
          /\ t' = lastTime + d
          /\ rawDt' = d
          /\ dt' = ClampDt(d)
          /\ hiccups' = IF d = NominalDelta THEN hiccups ELSE hiccups + 1
    /\ lastTime' = t'
    /\ pc' = "accumulate"
    /\ accIn' = spawnAccumulator
    /\ spawnCalls' = 0
    /\ rejects' = 0
    /\ buffer' = <<>>
    /\ uploaded' = <<>>
    /\ uploadIssued' = FALSE
    /\ drawIssued' = FALSE
    /\ UNCHANGED <<spawnAccumulator, particles, rng, vboSize, drawCount,
                   frames, nextId, runVars, pairVars, passVars>>

\* line 234
Accumulate ==
    /\ pc = "accumulate"
    /\ spawnAccumulator' = AccAdd(spawnAccumulator, dt)
    /\ pc' = "spawn"
    /\ IF runFrames > 0 /\ dt = runDt
       THEN /\ runFrames' = runFrames + 1
            /\ UNCHANGED <<runDt, runCalls>>
       ELSE IF spawnAccumulator = 0 /\ dt > 0
       THEN /\ runDt' = dt
            /\ runFrames' = 1
            /\ runCalls' = 0
       ELSE /\ runDt' = 0
            /\ runFrames' = 0
            /\ runCalls' = 0
    /\ UNCHANGED <<t, lastTime, dt, particles, rng, gpuVars, frames, hiccups,
                   historyVars, pairVars, passVars>>

\* lines 235-238: one iteration of the while loop
SpawnStep ==
    /\ pc = "spawn"
    /\ spawnAccumulator >= ONE_PARTICLE
    /\ LET s == spawnParticle(particles, rng, nextId, emitterX, emitterY, emitterZ)
       IN  /\ particles' = s.ps
           /\ rng' = s.r
           /\ nextId' = s.id
           /\ rejects' = IF Len(particles) >= MAX_PARTICLES
                         THEN rejects + 1 ELSE rejects
    /\ spawnAccumulator' = AccTake(spawnAccumulator)
    /\ spawnCalls' = spawnCalls + 1
    /\ runCalls' = IF runFrames > 0 THEN runCalls + 1 ELSE runCalls
    /\ UNCHANGED <<pc, t, lastTime, dt, gpuVars, frames, hiccups, rawDt,
                   accIn, runDt, runFrames, pairVars, passVars>>

\* lines 240-268: the while loop has ended; integrate and cull
Update ==
    /\ pc = "spawn"
    /\ spawnAccumulator < ONE_PARTICLE
    /\ particles' = UpdateAll(particles, t, dt)
    /\ pc' = "pack"
    /\ UNCHANGED <<t, lastTime, dt, spawnAccumulator, rng, gpuVars, frames,
                   hiccups, historyVars, runVars, pairVars, passVars>>

\* lines 271-278
PackBuffer ==
    /\ pc = "pack"
    /\ buffer' = Pack(particles)
    /\ pc' = "upload"
    /\ UNCHANGED <<t, lastTime, dt, spawnAccumulator, particles, rng, vboSize,
                   uploaded, uploadIssued, drawIssued, drawCount, frames,
                   hiccups, historyVars, runVars, pairVars, passVars>>

\* lines 280-284: orphan the buffer, refill it unless the packed data is empty
Upload ==
    /\ pc = "upload"
    /\ vboSize' = MAX_PARTICLES * STRIDE
    /\ IF buffer # <<>>
       THEN uploaded' = buffer /\ uploadIssued' = TRUE
       ELSE UNCHANGED <<uploaded, uploadIssued>>
    /\ pc' = "draw"
    /\ UNCHANGED <<t, lastTime, dt, spawnAccumulator, particles, rng, buffer,
                   drawIssued, drawCount, frames, hiccups, historyVars,
                   runVars, pairVars, passVars>>

\* the draw call issued for the whole capacity (mutant of Draw)
DrawCapacity ==
    /\ pc = "draw"
    /\ drawIssued' = TRUE
    /\ drawCount' = MAX_PARTICLES
    /\ frames' = frames + 1
    /\ pc' = "clock"
    /\ UNCHANGED <<t, lastTime, dt, spawnAccumulator, particles, rng, buffer,
                   vboSize, uploaded, uploadIssued, hiccups, historyVars,
                   runVars, pairVars, passVars>>

\* lines 308-310: glDrawArrays(GL_POINTS, 0, particles.size())
Draw ==
    /\ pc = "draw"
    /\ drawIssued' = TRUE
    /\ drawCount' = Len(particles)
    /\ frames' = frames + 1
    /\ pc' = "clock"
    /\ UNCHANGED <<t, lastTime, dt, spawnAccumulator, particles, rng, buffer,
                   vboSize, uploaded, uploadIssued, hiccups, historyVars,
                   runVars, pairVars, passVars>>

Next ==
    \/ ReadClock
    \/ Accumulate
    \/ SpawnStep
    \/ Update
    \/ PackBuffer
    \/ Upload
    \/ Draw

Spec == Init /\ [][Next]_vars

\* ------------------------------------------------------------ two runs
\* lines 235-238 as a whole: while (spawnAccumulator >= 1.0) { spawn; -= 1.0 }
RECURSIVE SpawnWhile(_, _, _, _)
SpawnWhile(ps, acc, r, id) ==
    IF acc >= ONE_PARTICLE
    THEN LET s == spawnParticle(ps, r, id, emitterX, emitterY, emitterZ)
         IN  SpawnWhile(s.ps, AccTake(acc), s.r, s.id)
    ELSE [ps |-> ps, acc |-> acc, r |-> r, id |-> id]

\* lines 228-268: emission and integration of one frame of a run whose
\* clock reads now
FrameOf(run, now) ==
    LET d == ClampDt(now - run.lastTime)
        e == SpawnWhile(run.particles, AccAdd(run.spawnAccumulator, d),
                        run.rng, run.nextId)
    IN  [particles |-> UpdateAll(e.ps, now, d),
         spawnAccumulator |-> e.acc,
         rng |-> e.r,
         nextId |-> e.id,
         lastTime |-> now,
         frames |-> run.frames + 1]

\* Wall-clock times at which the second run may start (the first starts at
\* the time in StartTimes), and the clock deltas given to both runs.
PairStartTimes == {1000, 1040, 5000}
PairDeltas == {-7, 0, 2, 5}

PairInit ==
    /\ MainInit
    /\ \E a \in StartTimes : runA = Run(<<>>, 0, SEED % RngMod, 1, a)
    /\ \E b \in PairStartTimes : runB = Run(<<>>, 0, SEED % RngMod, 1, b)
    /\ PassIdle

\* Both runs execute one frame with the same clock delta.
PairFrame ==
    /\ runA.frames < MaxPairFrames
    /\ \E d \in PairDeltas :
          /\ runA' = FrameOf(runA, runA.lastTime + d)
          /\ runB' = FrameOf(runB, runB.lastTime + d)
    /\ UNCHANGED <<mainVars, passVars>>

PairNext == PairFrame

SpecPair == PairInit /\ [][PairNext]_vars

\* ---------------------------------------------------------- single pass
\* The update loop of lines 241-268, one iteration per step, started on any
\* pool of live particles: lives that end in this pass, exactly at 0 or
\* later, heights below and just under the ceiling of 1.2.
PassLives == {3, 5, 8}
PassHeights == {emitterY, 11900}
PassDeltas == {-7, 0, 2, 5}

PassParticle(life, y, id) ==
    [NewParticle(emitterX, emitterY, emitterZ, [k \in 1..8 |-> 0], id)
        EXCEPT !.life = life, !.y = y]

PassPools ==
    UNION {{[i \in 1..n |-> PassParticle(f[i][1], f[i][2], i)] :
               f \in [1..n -> PassLives \X PassHeights]} : n \in 0..MaxPassLen}

PassInit ==
    /\ MainInit
    /\ runA = NoRun
    /\ runB = NoRun
    /\ passIn \in PassPools
    /\ passPool = passIn
    /\ passI = Len(passIn)          \* int i = (int)particles.size()-1
    /\ passVisits = [i \in 1..Len(passIn) |-> 0]
    /\ passT \in StartTimes
    /\ passDt \in PassDeltas

\* lines 242-263 and the test of 263 failing: particle i is updated and kept
PassKeep ==
    /\ passI >= 1
    /\ LET p == UpdateParticle(passPool[passI], passT, passDt)
       IN  /\ ~Dead(p)
           /\ passPool' = [passPool EXCEPT ![passI] = p]
           /\ passVisits' = [passVisits EXCEPT ![p.id] = @ + 1]
    /\ passI' = passI - 1
    /\ UNCHANGED <<passIn, passT, passDt, mainVars, pairVars>>

\* lines 242-267: particle i is updated, found dead and removed by swap-pop
PassRemove ==
    /\ passI >= 1
    /\ LET p == UpdateParticle(passPool[passI], passT, passDt)
       IN  /\ Dead(p)
           /\ passPool' = SwapPop([passPool EXCEPT ![passI] = p], passI)
           /\ passVisits' = [passVisits EXCEPT ![p.id] = @ + 1]
    /\ passI' = passI - 1
    /\ UNCHANGED <<passIn, passT, passDt, mainVars, pairVars>>

PassNext == PassKeep \/ PassRemove

SpecPass == PassInit /\ [][PassNext]_vars

\* ======================================================================
\* Properties
\* ======================================================================
Ids(ps) == {ps[i].id : i \in DOMAIN ps}
Abs(a) == IF a < 0 THEN -a ELSE a
\* floor(a / b) for b > 0 (\div is the floor division)
FloorDiv(a, b) == a \div b
UpdateStep == pc = "spawn" /\ pc' = "pack"

\* C1 (bounded pool): in every reachable state of the frame loop the pool
\* holds at most MAX_PARTICLES particles.
C1_BoundedPool == Len(particles) <= MAX_PARTICLES

\* The pool is full and spawnParticle was called on the full pool.
C1_Witness ==
    /\ Len(particles) = MAX_PARTICLES
    /\ rejects > 0
    /\ frames > 0

\* C2, part 1: no particle with life <= 0 or y > 1.2 is in the pool in any
\* state between two integration passes.
C2_NoDeadInPool ==
    \A i \in DOMAIN particles :
        particles[i].life > 0 /\ particles[i].y <= 12000

\* C2, part 2: in an integration pass with dt > 0 every particle that stays
\* in the pool has strictly less life than before.
C2_LifeDecreases ==
    (UpdateStep /\ dt > 0) =>
        \A i \in DOMAIN particles : \A j \in DOMAIN particles' :
            particles'[j].id = particles[i].id =>
                particles'[j].life < particles[i].life

\* C2, part 3: a particle leaves the pool in an integration pass exactly if
\* its updated life is <= 0 or its updated y is > 1.2.
C2_RemovedIffExpired ==
    UpdateStep =>
        \A i \in DOMAIN particles :
            LET u == UpdateParticle(particles[i], t, dt)
            IN  (particles[i].id \notin Ids(particles')) <=>
                    (u.life <= 0 \/ u.y > 12000)

\* C2, instance: a particle with life 2.0 s, alone in the pool and stepped
\* four times with dt = 0.5 s, is in the pool after steps 1 to 3 and gone
\* after step 4, whatever its other fields were drawn as.
InstanceDraws ==
    {[i \in 1..8 |-> IF i = 5 THEN kv ELSE ko] : kv \in -4..3, ko \in -4..3}
InstanceStart(u) ==
    <<[NewParticle(emitterX, emitterY, emitterZ, u, 1) EXCEPT !.life = 200]>>
C2_Instance ==
    \A u \in InstanceDraws : \A t0 \in StartTimes :
        LET s1 == UpdateAll(InstanceStart(u), t0 + 50, 50)
            s2 == UpdateAll(s1, t0 + 100, 50)
            s3 == UpdateAll(s2, t0 + 150, 50)
            s4 == UpdateAll(s3, t0 + 200, 50)
        IN  /\ Len(s1) = 1 /\ s1[1].life = 150
            /\ Len(s2) = 1 /\ s2[1].life = 100
            /\ Len(s3) = 1 /\ s3[1].life = 50
            /\ s4 = <<>>

\* C2 (lifetime monotonicity and expiry): parts 1 to 3 and the instance.
C2_Lifetime ==
    /\ [](C2_Instance /\ C2_NoDeadInPool)
    /\ [][C2_LifeDecreases /\ C2_RemovedIffExpired]_vars

\* An integration pass with dt > 0 has just removed a particle (a serial
\* number was handed out that is no longer in the pool) and kept another one.
C2_Witness ==
    /\ pc = "pack"
    /\ dt > 0
    /\ Len(particles) > 0
    /\ Len(particles) < MAX_PARTICLES
    /\ Cardinality(Ids(particles)) < nextId - 1

\* The frame has packed its buffer and the pool has not changed since.
Packed == pc \in {"upload", "draw"} \/ (pc = "clock" /\ frames > 0)

\* C3 (packing invariant): in every frame the packed buffer holds exactly
\* 4 floats per particle of the pool (none for an empty pool), and never
\* more than the MAX_PARTICLES * 4 floats allocated for the GPU buffer.
C3_Packing ==
    /\ Packed => Len(buffer) = Len(particles) * 4
    /\ Len(buffer) <= MAX_PARTICLES * 4
    /\ Len(buffer) <= vboSize
    /\ Len(uploaded) <= vboSize

\* A frame has packed and uploaded a pool that is neither empty nor full.
C3_Witness ==
    /\ pc = "draw"
    /\ Len(particles) > 0
    /\ Len(particles) < MAX_PARTICLES
    /\ uploaded = buffer
    /\ buffer # <<>>

\* C4, state part: the dt of a frame is at most 0.05 s, it is 0.05 s when
\* the clock delta was larger, and the accumulator received dt * spawnRate
\* for that same dt.
C4_ClampedDt ==
    /\ dt <= 5
    /\ (pc # "clock" /\ rawDt > 5) => dt = 5
    /\ (pc # "clock" /\ rawDt <= 5) => dt = rawDt
    /\ pc \in {"spawn", "pack", "upload", "draw"} =>
           spawnAccumulator + spawnCalls * ONE_PARTICLE = accIn + dt * spawnRate

\* C4, step part: the integration pass updates every particle with that
\* same dt: the life of a particle that stays drops by dt, and its record is
\* the update for the clamped delta.
C4_IntegrationUsesDt ==
    UpdateStep =>
        \A i \in DOMAIN particles : \A j \in DOMAIN particles' :
            particles'[j].id = particles[i].id =>
                /\ particles[i].life - particles'[j].life = dt
                /\ particles[i].life - particles'[j].life <= 5
                /\ particles'[j] =
                       UpdateParticle(particles[i], t,
                                      IF rawDt > 5 THEN 5 ELSE rawDt)

\* C4 (clamp behaviour): whatever the clock delta, the frame's dt is at
\* most 0.05 s and that one value feeds the accumulator and every update.
C4_Clamp == []C4_ClampedDt /\ [][C4_IntegrationUsesDt]_vars

\* A frame whose clock delta was 10 s has spawned and integrated.
C4_Witness ==
    /\ pc = "pack"
    /\ rawDt = 1000
    /\ dt = 5
    /\ spawnCalls > 0
    /\ Len(particles) > 0

\* The while loop of the emitter has ended for this frame.
Emitted == pc \in {"pack", "upload", "draw"} \/ (pc = "clock" /\ frames > 0)

\* C6 (rate accuracy): over N consecutive frames of one dt (0 < dt <= 0.05 s)
\* that start with an empty accumulator, the emitter makes
\* floor(spawnRate * N * dt) spawnParticle calls, within +-1.  (Each call
\* adds a particle unless the pool is full, see C9.)
C6_RateAccuracy ==
    (Emitted /\ runFrames > 0) =>
        /\ runDt > 0 /\ runDt <= 5
        /\ Abs(runCalls - FloorDiv(spawnRate * runFrames * runDt, TICKS_PER_SEC)) <= 1

\* Four equal frames of 0.05 s from an empty accumulator: 30 calls.
C6_Witness ==
    /\ pc = "pack"
    /\ runFrames = 4
    /\ runDt = 5
    /\ runCalls = 30

\* C7 (empty live set), as claimed: a frame that ends with an empty pool has
\* packed an empty buffer, uploaded nothing and issued no draw call.
C7_EmptyFrameSkipsDraw ==
    (pc = "clock" /\ frames > 0 /\ particles = <<>>) =>
        /\ buffer = <<>>
        /\ ~uploadIssued
        /\ ~drawIssued

\* What the code does for an empty pool: empty buffer, no glBufferSubData,
\* and a glDrawArrays call with count 0.
EmptyFrameDrawsZero ==
    (pc = "clock" /\ frames > 0 /\ particles = <<>>) =>
        /\ buffer = <<>>
        /\ ~uploadIssued
        /\ drawIssued /\ drawCount = 0

\* C8 (negative time step recovery), as claimed: no frame computes with a
\* negative dt, so the accumulator never goes below 0.
C8_NoNegativeDt ==
    /\ pc # "clock" => dt >= 0
    /\ spawnAccumulator >= 0

\* C8, the life part as claimed: no integration pass increases the life of
\* a particle.
C8_LifeNeverIncreases ==
    [][UpdateStep =>
          \A i \in DOMAIN particles : \A j \in DOMAIN particles' :
              particles'[j].id = particles[i].id =>
                  particles'[j].life <= particles[i].life]_vars

\* A spawnParticle call on a full pool is about to run.
RejectStep ==
    /\ pc = "spawn"
    /\ spawnAccumulator >= ONE_PARTICLE
    /\ Len(particles) >= MAX_PARTICLES

\* C9, step part: a spawnParticle call on a full pool leaves the pool and
\* the generator as they were and stays in the emission loop.
C9_RejectKeepsPool ==
    RejectStep =>
        /\ particles' = particles
        /\ rng' = rng
        /\ pc' = "spawn"
        /\ rejects' = rejects + 1

\* C9, frame part: a frame with a rejected call has integrated, packed the
\* pool, uploaded it and drawn it by the time it ends.
C9_FrameCompletes ==
    (pc = "clock" /\ rejects > 0) =>
        /\ frames > 0
        /\ buffer = Pack(particles)
        /\ uploaded = buffer
        /\ drawIssued
        /\ drawCount = Len(particles)

\* C9 (capacity exhaustion is a silent no-op).
C9_SilentNoOp == []C9_FrameCompletes /\ [][C9_RejectKeepsPool]_vars

\* A frame with a rejected call has ended with its draw call.
C9_Witness ==
    /\ pc = "clock"
    /\ rejects > 0
    /\ drawIssued
    /\ Len(particles) = MAX_PARTICLES

\* C10 (emission count per frame), as claimed: in a frame with dt >= 0 the
\* emitter makes floor(a + dt * spawnRate) calls, a the accumulator carried
\* in, and carries out the fractional remainder, which lies in [0, 1).
C10_EmissionCount ==
    (Emitted /\ dt >= 0) =>
        LET total == accIn + dt * spawnRate
            whole == FloorDiv(total, ONE_PARTICLE)
        IN  /\ spawnCalls = whole
            /\ spawnAccumulator = total - whole * ONE_PARTICLE
            /\ spawnAccumulator >= 0
            /\ spawnAccumulator < ONE_PARTICLE

\* The same statement for the frames that carry in no debt.
EmissionCountWithoutDebt ==
    (Emitted /\ dt >= 0 /\ accIn >= 0) =>
        LET total == accIn + dt * spawnRate
            whole == FloorDiv(total, ONE_PARTICLE)
        IN  /\ spawnCalls = whole
            /\ spawnAccumulator = total - whole * ONE_PARTICLE
            /\ spawnAccumulator >= 0
            /\ spawnAccumulator < ONE_PARTICLE

\* C5 (reproducibility), as claimed: two runs started from the same seed and
\* given the same sequence of dt values hold identical pools after every
\* frame, whatever the wall-clock time at which each run executes.
C5_Reproducible ==
    /\ runA.particles = runB.particles
    /\ runA.spawnAccumulator = runB.spawnAccumulator

\* What the two runs do agree on: the particle count, the accumulator, the
\* generator, and each particle's y, vy, life and size, none of which the
\* wind term reaches.
PairAgreesOffWind ==
    /\ Len(runA.particles) = Len(runB.particles)
    /\ runA.spawnAccumulator = runB.spawnAccumulator
    /\ runA.rng = runB.rng
    /\ \A i \in DOMAIN runA.particles :
          /\ runA.particles[i].id = runB.particles[i].id
          /\ runA.particles[i].y = runB.particles[i].y
          /\ runA.particles[i].vy = runB.particles[i].vy
          /\ runA.particles[i].life = runB.particles[i].life
          /\ runA.particles[i].size = runB.particles[i].size

\* The pool out is what a pass over the pool in must leave, for t = tt and
\* dt = d: every particle of in whose update is not dead is in out once, as
\* its update; no other record is in out; the count dropped by the number of
\* dead particles.  (Serial numbers are distinct in a pool.)
PassCorrect(in, out, tt, d) ==
    LET upd(i) == UpdateParticle(in[i], tt, d)
        alive(u) == u.life > 0 /\ u.y <= 12000
        deadSet == {i \in DOMAIN in : ~alive(upd(i))}
    IN  /\ \A i \in DOMAIN in :
              LET at == {j \in DOMAIN out : out[j].id = in[i].id}
              IN  /\ Cardinality(at) = IF alive(upd(i)) THEN 1 ELSE 0
                  /\ \A j \in at : out[j] = upd(i)
        /\ \A j \in DOMAIN out : out[j].id \in Ids(in)
        /\ Len(out) = Len(in) - Cardinality(deadSet)

\* C11, during the pass: no particle is updated twice; the slots still to
\* be visited hold particles not yet updated, the slots already passed hold
\* particles updated once, a particle moved into a freed slot included.
C11_LoopInvariant ==
    /\ passI <= Len(passPool)
    /\ \A id \in DOMAIN passVisits : passVisits[id] <= 1
    /\ \A j \in DOMAIN passPool :
          /\ j <= passI => /\ passVisits[passPool[j].id] = 0
                           /\ passPool[j] = passIn[passPool[j].id]
          /\ j > passI => passVisits[passPool[j].id] = 1

\* C11, when the loop has ended: every particle was updated exactly once,
\* the pool is the multiset of the updated particles that are not dead, and
\* it is the pool the frame loop's Update step computes.
C11_PassResult ==
    passI = 0 =>
        /\ \A id \in DOMAIN passVisits : passVisits[id] = 1
        /\ PassCorrect(passIn, passPool, passT, passDt)
        /\ passPool = UpdateAll(passIn, passT, passDt)

\* C11 (integrate-and-cull pass): for any pool at the start of the pass the
\* reverse loop with swap-with-last removal updates every particle exactly
\* once and leaves exactly the updated particles that are not dead.
C11_IntegrateAndCull == C11_LoopInvariant /\ C11_PassResult

\* A pass has ended in which at least two particles died, one of them in
\* slot 1, so that a survivor was moved into the freed slot.
C11_Witness ==
    /\ passI = 0
    /\ Len(passIn) >= 3
    /\ Len(passPool) > 0
    /\ Len(passPool) < Len(passIn) - 1
    /\ passPool[1].id # 1
    /\ passDt > 0

\* The same for the integration pass of every frame of the frame loop.
C11_InFrameLoop ==
    [][UpdateStep => PassCorrect(particles, particles', t, dt)]_vars

\* The order of the steps of a frame, as pairs of consecutive positions.
FrameOrder ==
    {<<"clock", "accumulate">>, <<"accumulate", "spawn">>,
     <<"spawn", "pack">>, <<"pack", "upload">>, <<"upload", "draw">>,
     <<"draw", "clock">>}

\* C12, step part: the steps of a frame follow each other in the order
\* emit, integrate-and-cull, pack, upload, draw; the pool changes only in
\* the emit and integrate steps; the buffer is written only by the pack step,
\* after emission has ended and the pool was integrated; the upload takes
\* the buffer packed from the pool as it is; the draw call comes after
\* them, with the size of that same pool as its count.
C12_StepOrder ==
    /\ pc' # pc => <<pc, pc'>> \in FrameOrder
    /\ particles' # particles => (pc = "spawn" /\ pc' \in {"spawn", "pack"})
    /\ (buffer' # buffer /\ buffer' # <<>>) =>
           /\ pc = "pack"
           /\ spawnAccumulator < ONE_PARTICLE
           /\ buffer' = Pack(particles)
    /\ (uploadIssued' /\ ~uploadIssued) =>
           /\ pc = "upload"
           /\ buffer = Pack(particles)
           /\ uploaded' = buffer
    /\ (drawIssued' /\ ~drawIssued) =>
           /\ pc = "draw"
           /\ buffer = Pack(particles)
           /\ uploaded = buffer
           /\ uploadIssued \/ particles = <<>>
           /\ drawCount' = Len(particles)
           /\ drawCount' * 4 = Len(uploaded)

\* C12, state part: from the pack step to the end of the frame the buffer
\* is the packed pool; when the frame has ended, its draw call was issued
\* with the pool size, which is the number of 4-float records packed and
\* uploaded in the frame.
C12_DrawMatchesPool ==
    /\ Packed => buffer = Pack(particles)
    /\ pc \in {"accumulate", "spawn", "pack", "upload", "draw"} => ~drawIssued
    /\ pc \in {"accumulate", "spawn", "pack", "upload"} => ~uploadIssued
    /\ (pc = "clock" /\ frames > 0) =>
           /\ drawIssued
           /\ drawCount = Len(particles)
           /\ drawCount * 4 = Len(buffer)
           /\ uploaded = buffer

\* C12 (frame ordering, write-then-read).
C12_FrameOrdering == []C12_DrawMatchesPool /\ [][C12_StepOrder]_vars

\* A frame that spawned into and culled from the pool has uploaded and
\* drawn a pool that is neither empty nor full.
C12_Witness ==
    /\ pc = "clock"
    /\ frames > 1
    /\ drawIssued
    /\ uploadIssued
    /\ drawCount > 0
    /\ drawCount < MAX_PARTICLES
    /\ drawCount = Len(particles)
    /\ Len(uploaded) = 4 * drawCount

====
